---------------------------- MODULE Spec2Model ----------------------------
(***************************************************************************)
(* WeatherSentinel (src/weather_tracking_system.py): a menu-driven         *)
(* controller (WeatherApp.run) that validates a pincode, fetches the       *)
(* current weather (WeatherAPI.fetch_weather), writes a JSON snapshot      *)
(* (WeatherApp.save_to_json) and appends a row to an SQLite table          *)
(* (WeatherDatabase.save_weather_data); the last rows of a pincode are     *)
(* read back with WeatherDatabase.get_weather_history.                     *)
(*                                                                         *)
(* Three specifications share the state and the operators:                 *)
(*   Spec       the program: WeatherApp.run, one action per path through   *)
(*              the code between two input() calls;                        *)
(*   StoreSpec  the WeatherDatabase methods called directly, in any order, *)
(*              with any arguments (the methods do not validate theirs),   *)
(*              up to MaxRecords rows of one observation;                  *)
(*   OrderSpec  the same methods, up to MaxOrderRows rows of two different *)
(*              observations and of observations that lack a field, for    *)
(*              the order of the rows read back and for malformed input.   *)
(*                                                                         *)
(* Behaviour of the libraries the code calls, as modelled:                 *)
(*   - str.isdigit() is true of every Unicode character whose Numeric_Type *)
(*     is Digit or Decimal, so also of SUPERSCRIPT TWO; the regular        *)
(*     expression class \d holds only the decimal digits (category Nd);    *)
(*   - CURRENT_TIMESTAMP and the file name's strftime have a resolution of *)
(*     one second; the clock is one count of seconds for both (the file    *)
(*     name is local time, the row UTC: the two are never compared), read  *)
(*     at each use and never running backwards;                            *)
(*   - SQL leaves the order of rows with equal ORDER BY keys to the        *)
(*     engine: SQLite emits them in rowid order from its sorter (the plan  *)
(*     of this query) and in reverse rowid order from a backward index     *)
(*     scan, so the order of ties is a choice between the two;             *)
(*   - a failed INSERT is rolled back and consumes no AUTOINCREMENT id;    *)
(*   - pandas.read_sql_query wraps an error of the statement's execution   *)
(*     in pandas.errors.DatabaseError, which is no sqlite3.Error.          *)
(***************************************************************************)
EXTENDS Naturals, Sequences, FiniteSets

VARIABLES
    pc,       \* where WeatherApp.run stands: MENU, FETCHING, HISTORY, EXIT, CRASHED
    store,    \* table weather_records: the rows in insertion order
    seq,      \* sqlite_sequence.seq of weather_records: the largest id ever given
    files,    \* directory weather_data: filename -> content
    clock,    \* the wall clock, in seconds
    fetches,  \* calls of WeatherAPI.fetch_weather made so far
    last      \* what the last operation was given, did and returned

vars == <<pc, store, seq, files, clock, fetches, last>>

----------------------------------------------------------------------------
(* Bounds of the model. *)

MaxClock == 1

MaxRecords == 6

MaxFetches == 2

MaxOrderRows == 3

(* LIMIT 5 of the history query. *)
Limit == 5

Min(a, b) == IF a < b THEN a ELSE b

----------------------------------------------------------------------------
(* Pincodes: strings, as sequences of characters. *)

AsciiDigit == {"0", "1", "5", "6"}

(* Unicode category Nd: what \d matches in a str pattern. *)
DecimalDigit == AsciiDigit \cup {"ARABIC-INDIC DIGIT THREE"}

(* Numeric_Type Digit or Decimal: what str.isdigit() accepts. *)
IsDigitChar == DecimalDigit \cup {"SUPERSCRIPT TWO"}

P560001 == <<"5", "6", "0", "0", "0", "1">>

P56000 == <<"5", "6", "0", "0", "0">>

PAlpha == <<"5", "6", "0", "0", "0", "a">>

PSuper == <<"SUPERSCRIPT TWO", "SUPERSCRIPT TWO", "SUPERSCRIPT TWO",
            "SUPERSCRIPT TWO", "SUPERSCRIPT TWO", "SUPERSCRIPT TWO">>

PEmpty == << >>

(* What the user may type at "Enter pincode: ". *)
PinInputs == {P560001, P56000, PAlpha, PSuper, PEmpty}

(* Arguments of the WeatherDatabase methods under StoreSpec. *)
AppendPins == {P560001, P56000}

QueryPins == {P560001, P56000, PAlpha}

(* str.isdigit(): every character a digit, and at least one character. *)
isdigit(s) == Len(s) > 0 /\ \A i \in 1..Len(s) : s[i] \in IsDigitChar

(* run: "if not pincode.isdigit() or len(pincode) != 6: ... continue". *)
ValidPincode(s) == ~(~isdigit(s) \/ Len(s) # 6)

----------------------------------------------------------------------------
(* API responses.  A JSON body is a function from the paths the program    *)
(* reads (name, main.temp, main.humidity, weather[0].description,          *)
(* wind.speed) to values; a path absent from the body is absent from the   *)
(* function's domain.                                                      *)

Null == "null"

Full == [name |-> "Bengaluru", temp |-> 24, humidity |-> 60,
         description |-> "clear sky", wind |-> 3]

Without(d, k) == [x \in (DOMAIN d) \ {k} |-> d[x]]

NoWind == Without(Full, "wind")

NoName == Without(Full, "name")

NoTemp == Without(Full, "temp")

NoHumidity == Without(Full, "humidity")

NoDescription == Without(Full, "description")

NullName == [Full EXCEPT !.name = Null]

Rainy == [name |-> "Bengaluru", temp |-> 19, humidity |-> 88,
          description |-> "light rain", wind |-> 5]

EmptyObj == [x \in {} |-> 0]

HttpBodies == {Full, NullName, NoWind, NoName, EmptyObj}

AppendBodies == {Full, NullName}

OrderBodies == {Full, Rainy, NoName, NoTemp, NoHumidity, NoDescription,
                NullName}

Responses ==
    {[kind |-> "timeout", status |-> 0, body |-> EmptyObj],
     [kind |-> "connection", status |-> 0, body |-> EmptyObj]}
    \cup [kind : {"http"}, status : {200, 404}, body : HttpBodies]

(* A fetch_weather that does not look at the status code. *)
FetchWeatherIgnoringStatus(resp) ==
    IF resp.kind = "http" THEN <<resp.body>> ELSE << >>

(* fetch_weather: the body on status 200, None (here << >>) on any other   *)
(* status and on requests.RequestException.                                *)
FetchWeather(resp) ==
    IF resp.kind = "http"
    THEN IF resp.status = 200 THEN <<resp.body>> ELSE << >>
    ELSE << >>

(* How the request ended, for the record of the operation. *)
NetOutcome(resp) ==
    IF resp.kind # "http" THEN resp.kind
    ELSE IF resp.status = 200 THEN "ok200" ELSE "non200"

(* run: "if data:" - None and an empty object are falsy. *)
Truthy(data) == data # << >> /\ DOMAIN data[1] # {}

(* display_weather reads all five paths, unguarded: KeyError on a missing one. *)
DisplayWeatherOk(body) ==
    {"name", "temp", "humidity", "description", "wind"} \subseteq DOMAIN body

----------------------------------------------------------------------------
(* Snapshot Writer. *)

FsOutcomes == {"ok", "open_error", "write_error"}

(* save_to_json: weather_data/weather_<pincode>_<YYYYMMDD_HHMMSS>.json,    *)
(* opened with mode 'w'.  IOError from open leaves the directory as it     *)
(* was; IOError from the write leaves a truncated file.  Either is caught. *)
SaveToJson(fs, now, pincode, body, outcome) ==
    LET fn == <<pincode, now>>
        content == [complete |-> (outcome = "ok"), data |-> body]
    IN  IF outcome = "open_error" THEN fs
        ELSE [f \in (DOMAIN fs) \cup {fn} |-> IF f = fn THEN content ELSE fs[f]]

----------------------------------------------------------------------------
(* Record Store. *)

DbFaults == {"none", "connect", "execute"}

(* A _create_tables that creates the table anew. *)
CreateTablesDropping(st) == << >>

(* _create_tables: CREATE TABLE IF NOT EXISTS keeps an existing table and  *)
(* its rows.                                                               *)
CreateTables(st) == st

(* AUTOINCREMENT: one more than the largest id ever given. *)
NextId(sq) == sq + 1

(* The paths save_weather_data reads while building the parameter tuple. *)
InsertFieldsPresent(body) ==
    {"name", "temp", "humidity", "description"} \subseteq DOMAIN body

(* save_weather_data.  sqlite3.connect raises inside the try; the parameter *)
(* tuple is built before conn.execute, and a KeyError is no sqlite3.Error; *)
(* the INSERT fails on a storage fault and on the NOT NULL constraint of   *)
(* location.  Result "ok" is True, "false" is False, "raise" an exception  *)
(* that leaves the method.                                                 *)
SaveWeatherData(st, sq, now, pincode, body, fault) ==
    IF fault = "connect"
    THEN [result |-> "false", store |-> st, seq |-> sq, id |-> 0]
    ELSE IF ~InsertFieldsPresent(body)
    THEN [result |-> "raise", store |-> st, seq |-> sq, id |-> 0]
    ELSE IF fault = "execute" \/ body.name = Null
    THEN [result |-> "false", store |-> st, seq |-> sq, id |-> 0]
    ELSE LET row == [id |-> NextId(sq), pincode |-> pincode,
                     location |-> body.name, temperature |-> body.temp,
                     humidity |-> body.humidity,
                     description |-> body.description, timestamp |-> now]
         IN  [result |-> "ok", store |-> Append(st, row), seq |-> NextId(sq),
              id |-> NextId(sq)]

(* A WHERE clause that matches on a prefix (pincode LIKE ? || '%'). *)
MatchesPincodePrefix(stored, arg) ==
    Len(arg) <= Len(stored) /\ SubSeq(stored, 1, Len(arg)) = arg

(* WHERE pincode = ?: TEXT against TEXT, BINARY collation. *)
MatchesPincode(stored, arg) == stored = arg

Matching(st, pincode) ==
    {i \in 1..Len(st) : MatchesPincode(st[i].pincode, pincode)}

TieOrders == {"rowid_asc", "rowid_desc"}

(* ORDER BY timestamp DESC: row a is emitted before row b. *)
Before(a, b, tie) ==
    \/ a.timestamp > b.timestamp
    \/ /\ a.timestamp = b.timestamp
       /\ IF tie = "rowid_asc" THEN a.id < b.id ELSE a.id > b.id

(* The SELECT without its LIMIT clause. *)
SelectRowsNoLimit(st, pincode, tie) ==
    LET M == Matching(st, pincode)
        rank(i) == Cardinality({j \in M : Before(st[j], st[i], tie)})
    IN  [k \in 1..Cardinality(M) |-> st[CHOOSE i \in M : rank(i) = k - 1].id]

(* The ids of the rows the SELECT yields, in order: WHERE pincode = ?      *)
(* ORDER BY timestamp DESC LIMIT 5.                                        *)
SelectRows(st, pincode, tie) ==
    LET M == Matching(st, pincode)
        rank(i) == Cardinality({j \in M : Before(st[j], st[i], tie)})
    IN  [k \in 1..Min(Limit, Cardinality(M)) |->
            st[CHOOSE i \in M : rank(i) = k - 1].id]

(* get_weather_history.  sqlite3.connect's error is caught and an empty    *)
(* DataFrame returned; an error of the statement's execution leaves        *)
(* read_sql_query as pandas.errors.DatabaseError and is not caught.        *)
GetWeatherHistory(st, pincode, fault, tie) ==
    IF fault = "connect" THEN [result |-> "empty_on_error", rows |-> << >>]
    ELSE IF fault = "execute" THEN [result |-> "raise", rows |-> << >>]
    ELSE [result |-> "ok", rows |-> SelectRows(st, pincode, tie)]

RowById(st, id) == CHOOSE r \in {st[i] : i \in 1..Len(st)} : r.id = id

(* SELECT timestamp, temperature, humidity, description. *)
FrameRow(r) ==
    [timestamp |-> r.timestamp, temperature |-> r.temperature,
     humidity |-> r.humidity, description |-> r.description]

(* The DataFrame get_weather_history returns, from the ids of its rows. *)
HistoryFrame(st, rows) ==
    [k \in 1..Len(rows) |-> FrameRow(RowById(st, rows[k]))]

----------------------------------------------------------------------------
(* The record of an operation. *)

NoOp == [op |-> "none", pincode |-> << >>, data |-> << >>, net |-> "none",
         fetchCalls |-> 0, snapAttempts |-> 0, insertAttempts |-> 0,
         fs |-> "none", fault |-> "none", result |-> "none",
         rows |-> << >>, id |-> 0]

Init ==
    /\ pc = "MENU"
    /\ store = << >>
    /\ seq = 0
    /\ files = [f \in {} |-> 0]
    /\ clock = 0
    /\ fetches = 0
    /\ last = NoOp

(* Time passes while the program waits. *)
Tick ==
    /\ clock < MaxClock
    /\ clock' = clock + 1
    /\ UNCHANGED <<pc, store, seq, files, fetches, last>>

----------------------------------------------------------------------------
(* WeatherApp.run. *)

ChooseFetch ==
    /\ pc = "MENU"
    /\ pc' = "FETCHING"
    /\ last' = [NoOp EXCEPT !.op = "choice1"]
    /\ UNCHANGED <<store, seq, files, clock, fetches>>

ChooseHistory ==
    /\ pc = "MENU"
    /\ pc' = "HISTORY"
    /\ last' = [NoOp EXCEPT !.op = "choice2"]
    /\ UNCHANGED <<store, seq, files, clock, fetches>>

ChooseExit ==
    /\ pc = "MENU"
    /\ pc' = "EXIT"
    /\ last' = [NoOp EXCEPT !.op = "choice3"]
    /\ UNCHANGED <<store, seq, files, clock, fetches>>

ChooseInvalid ==
    /\ pc = "MENU"
    /\ pc' = "MENU"
    /\ last' = [NoOp EXCEPT !.op = "invalid_choice"]
    /\ UNCHANGED <<store, seq, files, clock, fetches>>

(* Choice 1 from the pincode prompt to the end of the iteration, one       *)
(* action per path through the code.  Time passes while requests.get waits *)
(* and between the statements after it: the clock is read again at each    *)
(* use.                                                                    *)

(* The pincode fails the validation: the error message, then "continue". *)
FetchRejected(p) ==
    /\ pc = "FETCHING"
    /\ ~ValidPincode(p)
    /\ pc' = "MENU"
    /\ last' = [NoOp EXCEPT !.op = "fetch", !.pincode = p,
                            !.result = "invalid_pincode"]
    /\ UNCHANGED <<store, seq, files, clock, fetches>>

(* What run() knows once fetch_weather has returned. *)
Called(p, resp) ==
    [NoOp EXCEPT !.op = "fetch", !.pincode = p, !.fetchCalls = 1,
                 !.data = FetchWeather(resp), !.net = NetOutcome(resp)]

(* fetch_weather returns None or an empty object: "if data:" is not        *)
(* entered.  The request ends at time t.                                   *)
FetchNoData(p, resp, t) ==
    /\ pc = "FETCHING"
    /\ ValidPincode(p)
    /\ fetches < MaxFetches
    /\ ~Truthy(FetchWeather(resp))
    /\ clock <= t /\ t <= MaxClock
    /\ fetches' = fetches + 1
    /\ clock' = t
    /\ pc' = "MENU"
    /\ last' = [Called(p, resp) EXCEPT !.result = "no_data"]
    /\ UNCHANGED <<store, seq, files>>

(* fetch_weather returns data that display_weather cannot index: the       *)
(* KeyError leaves run().                                                  *)
FetchDisplayRaises(p, resp, t) ==
    /\ pc = "FETCHING"
    /\ ValidPincode(p)
    /\ fetches < MaxFetches
    /\ Truthy(FetchWeather(resp))
    /\ ~DisplayWeatherOk(FetchWeather(resp)[1])
    /\ clock <= t /\ t <= MaxClock
    /\ fetches' = fetches + 1
    /\ clock' = t
    /\ pc' = "CRASHED"
    /\ last' = [Called(p, resp) EXCEPT !.result = "raise"]
    /\ UNCHANGED <<store, seq, files>>

(* fetch_weather returns data, display_weather prints it, save_to_json     *)
(* reads the clock at tFile (datetime.now()) and the INSERT of             *)
(* save_weather_data reads it at tRow (CURRENT_TIMESTAMP), no earlier.     *)
FetchPersist(p, resp, fsOut, dbFault, tFile, tRow) ==
    /\ pc = "FETCHING"
    /\ ValidPincode(p)
    /\ fetches < MaxFetches
    /\ Truthy(FetchWeather(resp))
    /\ DisplayWeatherOk(FetchWeather(resp)[1])
    /\ clock <= tFile /\ tFile <= tRow /\ tRow <= MaxClock
    /\ fetches' = fetches + 1
    /\ clock' = tRow
    /\ LET body == FetchWeather(resp)[1]
           ins == SaveWeatherData(store, seq, tRow, p, body, dbFault)
       IN  /\ files' = SaveToJson(files, tFile, p, body, fsOut)
           /\ store' = ins.store
           /\ seq' = ins.seq
           /\ pc' = IF ins.result = "raise" THEN "CRASHED" ELSE "MENU"
           /\ last' = [Called(p, resp) EXCEPT !.snapAttempts = 1,
                                              !.fs = fsOut,
                                              !.insertAttempts = 1,
                                              !.fault = dbFault,
                                              !.result = ins.result,
                                              !.id = ins.id]

(* Choice 2 from the pincode prompt to the end of the iteration. *)
History(p, fault, tie) ==
    /\ pc = "HISTORY"
    /\ LET h == GetWeatherHistory(store, p, fault, tie)
       IN  /\ pc' = IF h.result = "raise" THEN "CRASHED" ELSE "MENU"
           /\ last' = [NoOp EXCEPT !.op = "history", !.pincode = p,
                                   !.fault = fault,
                                   !.result = h.result, !.rows = h.rows]
    /\ UNCHANGED <<store, seq, files, clock, fetches>>

(* main() run again after the process has ended: WeatherApp.__init__. *)
Restart ==
    /\ pc \in {"EXIT", "CRASHED"}
    /\ pc' = "MENU"
    /\ store' = CreateTables(store)
    /\ last' = [NoOp EXCEPT !.op = "start"]
    /\ UNCHANGED <<seq, files, clock, fetches>>

DoFetchRejected == \E p \in PinInputs : FetchRejected(p)

DoFetchNoData == \E p \in PinInputs, resp \in Responses, t \in clock..MaxClock :
                    FetchNoData(p, resp, t)

DoFetchDisplayRaises ==
    \E p \in PinInputs, resp \in Responses, t \in clock..MaxClock :
        FetchDisplayRaises(p, resp, t)

DoFetchPersist ==
    \E p \in PinInputs, resp \in Responses, fsOut \in FsOutcomes,
       dbFault \in DbFaults, tFile \in clock..MaxClock :
        \E tRow \in tFile..MaxClock :
            FetchPersist(p, resp, fsOut, dbFault, tFile, tRow)

DoHistory == \E p \in PinInputs, fault \in DbFaults, tie \in TieOrders :
                History(p, fault, tie)

Next ==
    \/ ChooseFetch
    \/ ChooseHistory
    \/ ChooseExit
    \/ ChooseInvalid
    \/ DoFetchRejected
    \/ DoFetchNoData
    \/ DoFetchDisplayRaises
    \/ DoFetchPersist
    \/ DoHistory
    \/ Restart
    \/ Tick

Spec == Init /\ [][Next]_vars

----------------------------------------------------------------------------
(* The WeatherDatabase methods called directly. *)

DbInit ==
    /\ store' = CreateTables(store)
    /\ last' = [NoOp EXCEPT !.op = "init"]
    /\ UNCHANGED <<pc, seq, files, clock, fetches>>

DbAppend(p, body, fault) ==
    /\ LET ins == SaveWeatherData(store, seq, clock, p, body, fault)
       IN  /\ store' = ins.store
           /\ seq' = ins.seq
           /\ last' = [NoOp EXCEPT !.op = "append", !.pincode = p,
                                   !.data = <<body>>, !.insertAttempts = 1,
                                   !.fault = fault,
                                   !.result = ins.result, !.id = ins.id]
    /\ UNCHANGED <<pc, files, clock, fetches>>

DbQuery(p, fault, tie) ==
    /\ LET h == GetWeatherHistory(store, p, fault, tie)
       IN  last' = [NoOp EXCEPT !.op = "query", !.pincode = p, !.fault = fault,
                                !.result = h.result, !.rows = h.rows]
    /\ UNCHANGED <<pc, store, seq, files, clock, fetches>>

DoAppend == \E p \in AppendPins, body \in AppendBodies, fault \in DbFaults :
               Len(store) < MaxRecords /\ DbAppend(p, body, fault)

DoQuery == \E p \in QueryPins, fault \in DbFaults, tie \in TieOrders :
              DbQuery(p, fault, tie)

StoreNext ==
    \/ DbInit
    \/ DoAppend
    \/ DoQuery
    \/ Tick

StoreSpec == Init /\ [][StoreNext]_vars

DoOrderAppend == \E p \in AppendPins, body \in OrderBodies, fault \in DbFaults :
                    Len(store) < MaxOrderRows /\ DbAppend(p, body, fault)

OrderNext ==
    \/ DbInit
    \/ DoOrderAppend
    \/ DoQuery
    \/ Tick

OrderSpec == Init /\ [][OrderNext]_vars

----------------------------------------------------------------------------
(* The claims. *)

(* The pattern ^\d{6}$: exactly six characters, each a decimal digit. *)
MatchesSixDigits(s) ==
    Len(s) = 6 /\ \A i \in 1..Len(s) : s[i] \in DecimalDigit

CountFor(st, pincode) ==
    Cardinality({i \in 1..Len(st) : st[i].pincode = pincode})

(* C1: in the fetch path, for every entered pincode that does not match    *)
(* ^\d{6}$, fetch_weather is not called, no snapshot is written, no row is *)
(* inserted, and the controller is back at MENU.                           *)
C1_NonMatchingPincodeNeverFetched ==
    (last.op = "fetch" /\ ~MatchesSixDigits(last.pincode))
        => /\ last.fetchCalls = 0
           /\ last.snapAttempts = 0
           /\ last.insertAttempts = 0
           /\ pc = "MENU"

(* C2: a fetch that ends in a timeout, a connection failure or a non-200   *)
(* status attempts no persistence: the snapshot files and the stored rows  *)
(* are after the fetch what they were before it.                           *)
C2_NetworkErrorNoPersistence ==
    [][(pc = "FETCHING" /\ last'.op = "fetch"
            /\ last'.net \in {"timeout", "connection", "non200"})
          => /\ files' = files
             /\ store' = store
             /\ seq' = seq
             /\ last'.snapAttempts = 0
             /\ last'.insertAttempts = 0
             /\ pc' = "MENU"]_vars

C2_Witness ==
    /\ last.op = "fetch"
    /\ last.net = "non200"
    /\ last.fetchCalls = 1
    /\ Len(store) > 0
    /\ DOMAIN files # {}

(* C3: a successful append(pincode, observation) followed by               *)
(* query_recent(pincode) returns the row just appended as the first        *)
(* element, also when earlier rows of the pincode carry the same           *)
(* timestamp.                                                              *)
C3_AppendedRowComesFirst ==
    [][(/\ last.op = "append"
        /\ last.result = "ok"
        /\ last'.op = "query"
        /\ last'.result = "ok"
        /\ last'.pincode = last.pincode)
          => /\ Len(last'.rows) > 0
             /\ HistoryFrame(store', last'.rows)[1]
                    = FrameRow(RowById(store, last.id))]_vars

(* The ids of the first Limit rows of a pincode by timestamp descending,   *)
(* rows of equal timestamp by id descending.                               *)
RowsInClaimedOrder(st, pincode) ==
    LET M == {i \in 1..Len(st) : st[i].pincode = pincode}
        before(i, j) == \/ st[i].timestamp > st[j].timestamp
                        \/ /\ st[i].timestamp = st[j].timestamp
                           /\ st[i].id > st[j].id
        rank(i) == Cardinality({j \in M : before(j, i)})
    IN  [k \in 1..Min(Limit, Cardinality(M)) |->
            st[CHOOSE i \in M : rank(i) = k - 1].id]

(* C4: what query_recent returns is the rows of the pincode by timestamp   *)
(* descending, rows of equal timestamp by id descending (so that of two    *)
(* successive appends the later one comes first).                          *)
C4_OrderedByTimestampThenIdDescending ==
    (last.op = "query" /\ last.result = "ok")
        => HistoryFrame(store, last.rows)
              = HistoryFrame(store, RowsInClaimedOrder(store, last.pincode))

(* C5: query_recent never returns more than Limit (5) rows, and returns    *)
(* exactly min(Limit, number of stored rows of the pincode) rows when the  *)
(* read succeeds.                                                          *)
C5_AtMostLimitRows ==
    last.op = "query"
        => /\ Len(last.rows) <= Limit
           /\ last.result = "ok"
                => Len(last.rows) = Min(Limit, CountFor(store, last.pincode))

C5_Witness ==
    /\ last.op = "query"
    /\ last.result = "ok"
    /\ CountFor(store, last.pincode) > Limit
    /\ Len(last.rows) = Limit

(* C6: query_recent(pincode) returns only rows whose stored pincode is the *)
(* argument exactly, a row's stored pincode is the one given to append,    *)
(* and for a pincode with no stored row the result is empty and no error.  *)
C6_ExactPincodeMatch ==
    /\ (last.op = "query" /\ last.result = "ok")
          => \A k \in 1..Len(last.rows) :
                RowById(store, last.rows[k]).pincode = last.pincode
    /\ (last.op = "query" /\ last.fault = "none"
            /\ CountFor(store, last.pincode) = 0)
          => (last.result = "ok" /\ last.rows = << >>)
    /\ (last.op = "append" /\ last.result = "ok")
          => store[Len(store)].pincode = last.pincode

C6_Witness ==
    /\ last.op = "query"
    /\ last.result = "ok"
    /\ last.pincode = P56000
    /\ Len(last.rows) > 0
    /\ CountFor(store, P560001) > 0

(* C7: the store is append-only: every step keeps the rows it found, field *)
(* for field and in place; ids are strictly increasing in insertion order  *)
(* and a new id is larger than every id given before; initialize and       *)
(* query_recent leave the rows as they are.                                *)
C7_AppendOnly ==
    [][/\ Len(store') >= Len(store)
       /\ \A i \in 1..Len(store) : store'[i] = store[i]
       /\ seq' >= seq
       /\ \A i \in (Len(store) + 1)..Len(store') : store'[i].id > seq
       /\ \A i, j \in 1..Len(store') : i < j => store'[i].id < store'[j].id
       /\ last'.op \in {"init", "query"} => store' = store]_vars

C7_Witness ==
    /\ last.op = "init"
    /\ Len(store) >= 2
    /\ store[1].id < store[2].id

(* C8: append with an observation that lacks the location, temperature,    *)
(* humidity or description returns the failure outcome and raises no       *)
(* exception; so does an append that meets a storage error.                *)
C8_MissingFieldIsFailureOutcome ==
    /\ (last.op = "append" /\ ~InsertFieldsPresent(last.data[1]))
          => last.result = "false"
    /\ (last.op = "append" /\ last.fault # "none")
          => last.result = "false"

(* C9: whatever fails in FETCHING or HISTORY, the controller never reaches *)
(* a crashed state: it is at a prompt, or has ended through choice 3.      *)
C9_ControllerNeverCrashes ==
    /\ pc \in {"MENU", "FETCHING", "HISTORY", "EXIT"}
    /\ pc = "EXIT" => last.op = "choice3"

(* C10: every fetch for a valid pincode that returns data is followed by   *)
(* exactly one snapshot write and exactly one insert, whatever the outcome *)
(* of the other, and a successful insert adds exactly one row.             *)
C10_FetchedDataPersistedOnce ==
    (last.op = "fetch" /\ ValidPincode(last.pincode) /\ Truthy(last.data))
        => /\ last.snapAttempts = 1
           /\ last.insertAttempts = 1
           /\ last.result = "ok"
                => (Len(store) > 0 /\ store[Len(store)].id = last.id)

============================================================================
